---- MODULE Spec2Model ----
(***************************************************************************)
(* Model of the Background cycle of midicast                               *)
(* (src/packages/main/src/cycles/Background.ts): the RxJS pipeline that    *)
(* ingests a MIDI song, runs the 100 ms playback intervals, folds the      *)
(* active-track requests and publishes the four status notifications.      *)
(*                                                                         *)
(* Every handler of the pipeline runs synchronously, so one action is one  *)
(* inbound event (a message, a device-reachability value, a fetch result)  *)
(* or one step of the timer, with everything the subscribers do in it.     *)
(***************************************************************************)
EXTENDS Integers, Sequences, FiniteSets, TLC

\* ------------------------------------------------------------------ bounds

\* PLAY_SONG requests whose fetch is still in flight (flatMap keeps them all).
MaxPending == 2
\* playCurrentTime$$ inner intervals kept alive at once by songStopped$'s flatMap.
MaxRuns == 2
\* Length of the array held by activeTrackIDProxy.
MaxActive == 2

\* Observable.interval(100), count * 100.
Interval == 100

\* ------------------------------------------------------------- input data

NoSong == "none"
\* track.instrumentFamily of a track without a family (JavaScript undefined).
NoFamily == "undefined"

\* A JavaScript number (IEEE 754 double) that is not an integer of the model:
\* significand * 2^exponent, the significand (below 2^53) as its digits in
\* base 2^18, least significant first.
Double(d1, d2, d3, exponent) ==
  [ significand |-> << d1, d2, d3 >>, exponent |-> exponent ]

\* note.time values (seconds) of the decoded songs: the doubles 0, 0.12 and 0.21.
Seconds0 == Double(0, 0, 0, 0)
Seconds012 == Double(73400, 31457, 125829, 0 - 56)
Seconds021 == Double(31457, 125829, 110100, 0 - 55)

\* Further note.time values a decoded file can hold: the doubles 0.3, 0.9 and
\* 0.8999999999999999 (the double next below 0.9: 0.3 + 0.6 in JavaScript).
Seconds03 == Double(209715, 52428, 78643, 0 - 54)
Seconds09 == Double(52429, 209715, 117964, 0 - 53)
Seconds09Below == Double(52428, 209715, 117964, 0 - 53)

NoteTimes == { Seconds0, Seconds012, Seconds021, Seconds03, Seconds09, Seconds09Below }

\* Decoded files put through the map of notesByTrackIDByTime$ on its own: two
\* tracks, two notes in the first and one in the second.
DecodedTracks ==
  { << [ notes |-> << [ midi |-> 60, time |-> t1 ], [ midi |-> 62, time |-> t2 ] >> ],
       [ notes |-> << [ midi |-> 36, time |-> t3 ] >> ] >> :
      <<t1, t2, t3>> \in NoteTimes \X NoteTimes \X NoteTimes }

\* The decoded songs fetch(url).then(MIDIConvert.parse) can resolve to: the
\* duration in ms (midiSong.duration * 1000), and per track its id (the index
\* in tracks), its name as a sequence of characters, its family and its notes
\* (time in seconds, midi pitch).
Songs ==
  [ a |-> [ duration |-> 250,
            tracks |-> << [ id |-> 0, name |-> << "P", "i" >>,
                            instrumentFamily |-> "piano",
                            notes |-> << [ midi |-> 60, time |-> Seconds0 ],
                                         [ midi |-> 62, time |-> Seconds012 ] >> ],
                          [ id |-> 1, name |-> << "d", "r" >>,
                            instrumentFamily |-> NoFamily,
                            notes |-> << [ midi |-> 36, time |-> Seconds021 ] >> ] >> ],
    b |-> [ duration |-> 0,
            tracks |-> << [ id |-> 0, name |-> << "b", "i" >>,
                            instrumentFamily |-> "bass",
                            notes |-> << >> ] >> ] ]

SongNames == DOMAIN Songs

\* ids a CHANGE_TRACK_ACTIVE_STATUS request may carry: 1 is no track of song b.
RequestIDs == 0 .. 1

\* The query texts 'all' and 'family' of a CHANGE_ACTIVE_TRACKS request.
QueryAll == << "a", "l", "l" >>
QueryFamily == << "f", "a", "m", "i", "l", "y" >>

\* family ids a CHANGE_ACTIVE_TRACKS 'family' request may carry.
RequestFamilies == { "piano", "other", "strings" }

\* query texts of a CHANGE_ACTIVE_TRACKS request that is neither 'all' nor
\* 'family': "p", "I,x" and "R", as sequences of characters.
RequestQueries == { << "p" >>, << "I", ",", "x" >>, << "R" >> }

\* ---------------------------------------------------------------- helpers

\* The bucket width of notesByTrackIDByTime: Math.floor(note.time * 10) * 100.
BucketSize == 100

Min(a, b) == IF a < b THEN a ELSE b

MaxDuration ==
  CHOOSE d \in { Songs[s].duration : s \in SongNames } :
    \A s \in SongNames : Songs[s].duration <= d

\* A count from which count * 100 is no tick of any song: the intervals'
\* counters are kept up to it (every larger count fails takeWhile alike).
CountCap == (MaxDuration + Interval - 1) \div Interval

\* String.prototype.toLowerCase on one character.
ToLowerChar(c) ==
  CASE c = "P" -> "p"
    [] c = "I" -> "i"
    [] c = "D" -> "d"
    [] c = "R" -> "r"
    [] OTHER -> c

toLowerCase(s) == [ i \in 1 .. Len(s) |-> ToLowerChar(s[i]) ]

\* String.prototype.includes: needle occurs in hay (the empty needle always).
includes(hay, needle) ==
  \E i \in 0 .. (Len(hay) - Len(needle)) :
     \A j \in 1 .. Len(needle) : hay[i + j] = needle[j]

\* String.prototype.split(','): the pieces between the commas.
RECURSIVE split(_)
split(s) ==
  IF \A i \in 1 .. Len(s) : s[i] # ","
    THEN << s >>
    ELSE LET k == CHOOSE i \in 1 .. Len(s) :
                     s[i] = "," /\ \A j \in 1 .. (i - 1) : s[j] # ","
         IN << SubSeq(s, 1, k - 1) >> \o split(SubSeq(s, k + 1, Len(s)))

\* Array.prototype.includes on an array of ids.
Contains(ids, id) == \E i \in 1 .. Len(ids) : ids[i] = id

\* song.tracks.map(track => track.id)
allTrackIDs(song) == [ i \in 1 .. Len(Songs[song].tracks) |-> Songs[song].tracks[i].id ]

\* song.tracks[trackID] is defined (the array is indexed from 0).
HasTrack(song, trackID) == trackID + 1 \in 1 .. Len(Songs[song].tracks)

TrackAt(song, trackID) == Songs[song].tracks[trackID + 1]

TrackIDSet(song) == { Songs[song].tracks[i].id : i \in 1 .. Len(Songs[song].tracks) }

\* ------------------------------------------------------ number arithmetic

\* JavaScript numbers are IEEE 754 doubles: a product is the exact product
\* rounded to 53 significant bits, ties to even.  Naturals beyond the model's
\* integers are sequences of digits in base 2^18, least significant first.
DigitBits == 18
SignificandBits == 53

RECURSIVE Pow2(_)
Pow2(n) == IF n = 0 THEN 1 ELSE 2 * Pow2(n - 1)

Base == Pow2(DigitBits)

\* digits * c + carry, for a small multiplier c.
RECURSIVE timesDigits(_, _, _)
timesDigits(digits, c, carry) ==
  IF digits = << >>
    THEN (IF carry = 0 THEN << >> ELSE << carry >>)
    ELSE LET p == Head(digits) * c + carry
         IN << p % Base >> \o timesDigits(Tail(digits), c, p \div Base)

\* digits + 1
RECURSIVE increment(_)
increment(digits) ==
  IF digits = << >> THEN << 1 >>
  ELSE IF Head(digits) + 1 < Base THEN << Head(digits) + 1 >> \o Tail(digits)
  ELSE << 0 >> \o increment(Tail(digits))

\* Number of bits of the natural: 0 for zero.
RECURSIVE bitLength(_)
bitLength(digits) ==
  IF digits = << >> THEN 0
  ELSE IF digits[Len(digits)] = 0 THEN bitLength(SubSeq(digits, 1, Len(digits) - 1))
  ELSE (Len(digits) - 1) * DigitBits
         + (CHOOSE k \in 1 .. DigitBits :
              Pow2(k - 1) <= digits[Len(digits)] /\ digits[Len(digits)] < Pow2(k))

\* Bit k (from 0) of the natural.
bitAt(digits, k) ==
  IF k \div DigitBits + 1 > Len(digits) THEN 0
  ELSE (digits[k \div DigitBits + 1] \div Pow2(k % DigitBits)) % 2

\* The natural divided by 2^n, rounded down.
shiftRight(digits, n) ==
  LET whole == SubSeq(digits, Min(n \div DigitBits, Len(digits)) + 1, Len(digits))
      r == n % DigitBits
      Above(i) == IF i < Len(whole) THEN whole[i + 1] ELSE 0
  IN [ i \in 1 .. Len(whole) |->
         whole[i] \div Pow2(r) + (Above(i) % Pow2(r)) * Pow2(DigitBits - r) ]

\* The value of a natural that fits the model's integers.
RECURSIVE toInteger(_)
toInteger(digits) ==
  IF digits = << >> THEN 0 ELSE Head(digits) + Base * toInteger(Tail(digits))

\* The digits of a significand: as many as 53 bits take, leading zeros kept.
significandOf(digits) ==
  [ i \in 1 .. ((SignificandBits + DigitBits - 1) \div DigitBits) |->
      IF i <= Len(digits) THEN digits[i] ELSE 0 ]

\* Rounding of digits * 2^exponent to a double: round to nearest, ties to even.
roundToDouble(digits, exponent) ==
  LET n == bitLength(digits) - SignificandBits
  IN IF n <= 0
       THEN [ significand |-> significandOf(digits), exponent |-> exponent ]
       ELSE LET q == shiftRight(digits, n)
                half == bitAt(digits, n - 1) = 1
                below == \E k \in 0 .. (n - 2) : bitAt(digits, k) = 1
                up == half /\ (below \/ bitAt(q, 0) = 1)
            IN [ significand |-> significandOf(IF up THEN increment(q) ELSE q),
                 exponent |-> exponent + n ]

\* x * c in JavaScript, c a small integer.
times(x, c) == roundToDouble(timesDigits(x.significand, c, 0), x.exponent)

\* Math.floor(x) of a double x >= 0 whose floor fits the model's integers.
floor(x) ==
  IF x.exponent >= 0
    THEN toInteger(x.significand) * Pow2(x.exponent)
    ELSE toInteger(shiftRight(x.significand, 0 - x.exponent))

\* ------------------------------------------------- notesByTrackIDByTime$

\* const roundedTime = Math.floor(note.time * 10) * 100
roundedTime(note) == floor(times(note.time, 10)) * BucketSize

\* const time = note.time * 1000
timeOf(note) == times(note.time, 1000)

\* The body of the map over midiSong$: the dictionary of a decoded song's
\* tracks, roundedTime -> trackID (the index in tracks) -> the notes of that
\* track in the bucket, in the order of track.notes.  A time or a track
\* without a note has no key.
bucketNotes(tracks) ==
  LET InBucket(i, t) == SelectSeq(tracks[i].notes, LAMBDA n : roundedTime(n) = t)
      keys == UNION { { roundedTime(tracks[i].notes[j]) : j \in 1 .. Len(tracks[i].notes) } :
                        i \in 1 .. Len(tracks) }
  IN [ t \in keys |->
         [ trackID \in { i - 1 : i \in { k \in 1 .. Len(tracks) : InBucket(k, t) # << >> } } |->
             [ k \in 1 .. Len(InBucket(trackID + 1, t)) |->
                 [ note |-> InBucket(trackID + 1, t)[k].midi,
                   time |-> timeOf(InBucket(trackID + 1, t)[k]),
                   track |-> trackID ] ] ] ]

\* The dictionary notesByTrackIDByTime$ emits for each decoded song; the map
\* runs once per song and withLatestFrom holds its result.
dictionaries == [ song \in SongNames |-> bucketNotes(Songs[song].tracks) ]

notesByTrackIDByTime(song) == dictionaries[song]

\* note$ for one tick: notesByTrackIDByTime[time], undefined filtered out, then
\* for every id of activeTrackIDs in order the notes of notesByTrackID[trackID]
\* (undefined entries filtered out).
RECURSIVE notesOfTracks(_, _)
notesOfTracks(notesByTrackID, ids) ==
  IF ids = << >>
    THEN << >>
    ELSE (IF Head(ids) \in DOMAIN notesByTrackID
            THEN notesByTrackID[Head(ids)]
            ELSE << >>) \o notesOfTracks(notesByTrackID, Tail(ids))

noteBatch(song, time, ids) ==
  IF time \in DOMAIN notesByTrackIDByTime(song)
    THEN notesOfTracks(notesByTrackIDByTime(song)[time], ids)
    ELSE << >>

\* startTime + note.time, kept as its two operands.
plus(startTime, time) == [ startTime |-> startTime, time |-> time ]

\* withLatestFrom(playStartingTime$).map: { ...note, time: startTime + note.time }
stamped(batch, startTime) ==
  [ k \in 1 .. Len(batch) |-> [ batch[k] EXCEPT !.time = plus(startTime, @) ] ]

\* -------------------------------------------------------- activeTrackIDs$

\* The map of changeTrackActiveStatusRequest$.withLatestFrom(activeTrackIDProxy).
toggleTrack(request, ids) ==
  IF request.active
    THEN Append(ids, request.id)
    ELSE SelectSeq(ids, LAMBDA id : id # request.id)

\* id === 'other' ? undefined : id
familyOf(id) == IF id = "other" THEN NoFamily ELSE id

\* tracks.map(track => track.id)
trackIDsOf(tracks) == [ i \in 1 .. Len(tracks) |-> tracks[i].id ]

nameMatches(track, queryPieces) ==
  \E k \in 1 .. Len(queryPieces) : includes(toLowerCase(track.name), queryPieces[k])

\* The substring activation without its forEach: the old ids are dropped.
pushNone(ids, old) == ids

\* oldActiveTrackIDs.forEach(id => activeTrackIDs.includes(id) || push(id))
RECURSIVE pushMissing(_, _)
pushMissing(ids, old) ==
  IF old = << >>
    THEN ids
    ELSE pushMissing(IF Contains(ids, Head(old)) THEN ids ELSE Append(ids, Head(old)),
                     Tail(old))

\* The family and substring deactivations read song.tracks[trackID] of every
\* old id: an id without a track there throws a TypeError in the map.
queryThrows(request, old, song) ==
  /\ request.query # QueryAll
  /\ ~request.active
  /\ \E i \in 1 .. Len(old) : ~HasTrack(song, old[i])

\* The map of changeActiveTracksRequest$.withLatestFrom(activeTrackIDProxy, midiSong$),
\* where it does not throw.
queryTracks(request, old, song) ==
  IF request.query = QueryAll
    THEN IF request.active THEN allTrackIDs(song) ELSE << >>
  ELSE IF request.query = QueryFamily
    THEN IF request.active
           THEN old \o trackIDsOf(SelectSeq(Songs[song].tracks,
                          LAMBDA track : track.instrumentFamily = familyOf(request.id)))
           ELSE SelectSeq(old, LAMBDA trackID :
                          TrackAt(song, trackID).instrumentFamily # familyOf(request.id))
  ELSE LET queryPieces == split(toLowerCase(request.query))
       IN IF request.active
            THEN pushMissing(trackIDsOf(SelectSeq(Songs[song].tracks,
                               LAMBDA track : nameMatches(track, queryPieces))), old)
            ELSE SelectSeq(old, LAMBDA id :
                               ~nameMatches(TrackAt(song, id), queryPieces))

\* ------------------------------------------------------------------ state

VARIABLES
  midiSong,               \* latest value of midiSong$ (a name of Songs), or NoSong
  pending,                \* the PLAY_SONG requests whose fetch has not settled
  instrumentAvailability, \* latest value of instrumentAvailability$
  activeTrackIDProxy,     \* latest array emitted by activeTrackIDProxy
  activeTrackIDs,         \* latest array of activeTrackIDs$ as the sinks see it
  proxyFaulted,           \* activeTrackIDProxy was errored: note$ is dead
  messagesLive,           \* the messages sink has not errored
  intervals,              \* the live Observable.interval(100) timers, next to fire first
  playStartingTime,       \* latest value of playStartingTime$ held by note$, 0 before
  currentPlaybackStatus,  \* latest value of currentPlaybackStatus$
  out,                    \* messages emitted on the messages sink by the last step
  notes,                  \* notes emitted on the instrument sink by the last step
  run,                    \* the playback run of note$: its ticks and notes so far
  logged,                 \* the last step wrote an error to the console
  ingest                  \* one decoded file put through the map of notesByTrackIDByTime$

vars == << midiSong, pending, instrumentAvailability, activeTrackIDProxy,
           activeTrackIDs, proxyFaulted, messagesLive, intervals, playStartingTime,
           currentPlaybackStatus, out, notes, run, logged, ingest >>

Message(type, payload) == [ type |-> type, payload |-> payload ]

\* instrumentAvailability$ has emitted nothing yet.
NoAvailability == [ known |-> FALSE, isAvailable |-> FALSE ]

\* An inner observable of songRequest$.flatMap: the fetch of a PLAY_SONG
\* request.  subscribed turns false when takeUntil(instrumentIsOffline$)
\* completes it (the promise itself still settles later); overtaken records
\* that a request made after this one has already delivered its song.
Request(song) == [ song |-> song, subscribed |-> TRUE, overtaken |-> FALSE ]

\* An inner observable of playCurrentTime$$ that is subscribed: by songStopped$
\* (flatMap, in the messages sink) or by note$ (switch, in the instrument
\* sink).  count is the next value of interval(100), hasValue whether a tick
\* has passed takeWhile (what last() looks at).
NewInterval(sink) == [ sink |-> sink, count |-> 0, hasValue |-> FALSE ]

statusIntervals == SelectSeq(intervals, LAMBDA i : i.sink = "messages")
noteIntervals == SelectSeq(intervals, LAMBDA i : i.sink = "instrument")

\* state: "none", "live" (note$ is switched to an interval), "done" (the
\* interval was completed by takeWhile in the last step).  startedAt is the
\* performance.now() of the event that created the interval.
NoRun == [ state |-> "none", startedAt |-> 0, ticks |-> << >>, notes |-> << >>,
           steady |-> TRUE ]
NewRun == [ state |-> "live", startedAt |-> 0, ticks |-> << >>, notes |-> << >>,
            steady |-> TRUE ]

\* Readings of performance.now(), in ms.
Clock == { 1000, 2000 }

\* No decoded file is under the map.
NoIngest == [ tracks |-> << >>, mapped |-> FALSE, notesByTrackIDByTime |-> << >> ]

Init ==
  /\ midiSong = NoSong
  /\ pending = << >>
  /\ instrumentAvailability = NoAvailability
  /\ activeTrackIDProxy = << >>
  /\ activeTrackIDs = << >>
  /\ proxyFaulted = FALSE
  /\ messagesLive = TRUE
  /\ intervals = << >>
  /\ playStartingTime = 0
  /\ currentPlaybackStatus = "STOPPED"
  /\ out = << Message("PLAYBACK_STATUS_CHANGED", "STOPPED") >>
  /\ notes = << >>
  /\ run = NoRun
  /\ logged = FALSE
  /\ ingest = NoIngest

\* ------------------------------------------------------- playCurrentTime$$

\* takeUntil(merge(stopRequest$, instrumentIsOffline$)) completes every
\* interval of songStopped$, oldest first; last() emits the last tick of an
\* interval, and errors (EmptyError) when it had none.
RECURSIVE stopIntervals(_)
stopIntervals(stopping) ==
  IF stopping = << >>
    THEN [ stopped |-> 0, error |-> FALSE ]
    ELSE IF Head(stopping).hasValue
      THEN [ stopIntervals(Tail(stopping)) EXCEPT !.stopped = @ + 1 ]
      ELSE [ stopped |-> 0, error |-> TRUE ]

\* songStopped$.mapTo(STOPPED), wrapped, once per interval that ended.
stoppedMessages(n) == [ k \in 1 .. n |-> Message("PLAYBACK_STATUS_CHANGED", "STOPPED") ]

\* takeWhile written with >= : a tick equal to the duration would pass.
tickOutcomeInclusive(song, count) ==
  IF song = NoSong THEN "drop"
  ELSE IF Songs[song].duration >= count * Interval THEN "pass"
  ELSE "complete"

\* withLatestFrom(midiSong$).takeWhile(duration * 1000 > time) on the tick
\* count * 100 of an interval: "drop" without a song, "pass" or "complete".
tickOutcome(song, count) ==
  IF song = NoSong THEN "drop"
  ELSE IF Songs[song].duration > count * Interval THEN "pass"
  ELSE "complete"

\* The run record when an input other than a timer is handled: a run that
\* has ended is forgotten.
runKept == IF run.state = "done" THEN NoRun ELSE run

\* ---------------------------------------------------------------- actions

\* Both ways into PLAYING (playStartingTime$ emits performance.now()):
\* songStopped$ gets one more interval (flatMap), note$ is switched to a new
\* one (switch).  A timer started now fires after every timer already running.
enterPlaying(startTime) ==
  /\ intervals' = statusIntervals
                    \o (IF messagesLive THEN << NewInterval("messages") >> ELSE << >>)
                    \o (IF proxyFaulted THEN << >> ELSE << NewInterval("instrument") >>)
  /\ playStartingTime' = IF proxyFaulted THEN playStartingTime ELSE startTime
  /\ run' = IF proxyFaulted THEN runKept ELSE [ NewRun EXCEPT !.startedAt = startTime ]
  /\ currentPlaybackStatus' = IF messagesLive THEN "PLAYING" ELSE currentPlaybackStatus

\* The readings performance.now() can give now: the clock does not go back.
ClockNow == { t \in Clock : t >= playStartingTime }

\* A PLAY_SONG message: the fetch starts.
PlaySong(song) ==
  /\ Len(pending) < MaxPending
  /\ pending' = Append(pending, Request(song))
  /\ out' = << >>
  /\ notes' = << >>
  /\ run' = runKept
  /\ logged' = FALSE
  /\ UNCHANGED << midiSong, instrumentAvailability, activeTrackIDProxy, activeTrackIDs,
                  proxyFaulted, messagesLive, intervals, playStartingTime,
                  currentPlaybackStatus, ingest >>

Remove(seq, i) == SubSeq(seq, 1, i - 1) \o SubSeq(seq, i + 1, Len(seq))

\* The requests left in flight when the i-th delivers its song: the ones
\* made before it have been overtaken.
overtake(requests, i) ==
  Remove([ k \in 1 .. Len(requests) |->
             IF k < i THEN [ requests[k] EXCEPT !.overtaken = TRUE ] ELSE requests[k] ], i)

\* The promise of the i-th pending request resolves: midiSong$ emits the song.
SongLoaded(i) ==
  /\ i \in 1 .. Len(pending)
  /\ pending[i].subscribed
  /\ Len(statusIntervals) < MaxRuns
  /\ LET song == pending[i].song
     IN /\ midiSong' = song
        /\ activeTrackIDProxy' = IF proxyFaulted THEN activeTrackIDProxy
                                                 ELSE allTrackIDs(song)
        /\ activeTrackIDs' = IF proxyFaulted THEN activeTrackIDs ELSE allTrackIDs(song)
        /\ out' = IF messagesLive
                    THEN << Message("PLAYBACK_STATUS_CHANGED", "PLAYING"),
                            Message("SONG_CHANGED", song),
                            Message("ACTIVE_TRACKS_CHANGED", allTrackIDs(song)) >>
                    ELSE << >>
        /\ logged' = FALSE
  /\ pending' = overtake(pending, i)
  /\ \E startTime \in ClockNow : enterPlaying(startTime)
  /\ notes' = << >>
  /\ UNCHANGED << instrumentAvailability, proxyFaulted, messagesLive, ingest >>

\* The rejection with the catch after flatMap instead of inside it: the error
\* ends midiSong$, and with it every fetch still in flight.
SongFailedUncaught(i) ==
  /\ i \in 1 .. Len(pending)
  /\ pending[i].subscribed
  /\ pending' = << >>
  /\ out' = << >>
  /\ notes' = << >>
  /\ run' = runKept
  /\ logged' = TRUE
  /\ UNCHANGED << midiSong, instrumentAvailability, activeTrackIDProxy, activeTrackIDs,
                  proxyFaulted, messagesLive, intervals, playStartingTime,
                  currentPlaybackStatus, ingest >>

\* The promise of the i-th pending request rejects: logged, Observable.empty().
SongFailed(i) ==
  /\ i \in 1 .. Len(pending)
  /\ pending[i].subscribed
  /\ pending' = Remove(pending, i)
  /\ out' = << >>
  /\ notes' = << >>
  /\ run' = runKept
  /\ logged' = TRUE
  /\ UNCHANGED << midiSong, instrumentAvailability, activeTrackIDProxy, activeTrackIDs,
                  proxyFaulted, messagesLive, intervals, playStartingTime,
                  currentPlaybackStatus, ingest >>

\* The promise of a request that takeUntil has completed settles, either way:
\* nothing is subscribed to it any more.
SettledUnsubscribed(i) ==
  /\ i \in 1 .. Len(pending)
  /\ ~pending[i].subscribed
  /\ pending' = Remove(pending, i)
  /\ out' = << >>
  /\ notes' = << >>
  /\ run' = runKept
  /\ logged' = FALSE
  /\ UNCHANGED << midiSong, instrumentAvailability, activeTrackIDProxy, activeTrackIDs,
                  proxyFaulted, messagesLive, intervals, playStartingTime,
                  currentPlaybackStatus, ingest >>

\* A CHANGE_PLAYBACK_STATUS message with PLAYING.
PlayRequest ==
  /\ Len(statusIntervals) < MaxRuns
  /\ \E startTime \in ClockNow : enterPlaying(startTime)
  /\ out' = IF messagesLive
              THEN << Message("PLAYBACK_STATUS_CHANGED", "PLAYING") >>
              ELSE << >>
  /\ notes' = << >>
  /\ logged' = FALSE
  /\ UNCHANGED << midiSong, pending, instrumentAvailability, activeTrackIDProxy,
                  activeTrackIDs, proxyFaulted, messagesLive, ingest >>

\* What a stop request and an unreachable device share: every interval is
\* completed by its takeUntil.  `before` is what the messages sink emitted
\* earlier in the same step.
stopPlaying(before) ==
  LET ended == stopIntervals(statusIntervals)
  IN /\ intervals' = << >>
     /\ messagesLive' = (messagesLive /\ ~ended.error)
     /\ out' = IF messagesLive THEN before \o stoppedMessages(ended.stopped) ELSE << >>
     /\ currentPlaybackStatus' = IF messagesLive /\ ended.stopped > 0
                                   THEN "STOPPED"
                                   ELSE currentPlaybackStatus
     /\ run' = NoRun
     /\ notes' = << >>

\* A CHANGE_PLAYBACK_STATUS message with STOPPED.
StopRequest ==
  /\ stopPlaying(<< >>)
  /\ logged' = FALSE
  /\ UNCHANGED << midiSong, pending, instrumentAvailability, activeTrackIDProxy,
                  activeTrackIDs, proxyFaulted, playStartingTime, ingest >>

\* The inner observables without takeUntil: the signal leaves them subscribed.
stillSubscribed(requests) == requests

\* takeUntil(instrumentIsOffline$) completes every inner observable of
\* songRequest$.flatMap.
unsubscribed(requests) ==
  [ k \in 1 .. Len(requests) |-> [ requests[k] EXCEPT !.subscribed = FALSE ] ]

\* instrumentConnection emits isAvailable.  false ends the pending fetches
\* (takeUntil in midiSong$) and the intervals.
InstrumentAvailability(isAvailable) ==
  LET message == Message("INSTRUMENT_AVAILABILITY_CHANGED", isAvailable)
  IN /\ instrumentAvailability' = [ known |-> TRUE, isAvailable |-> isAvailable ]
     /\ IF isAvailable
          THEN /\ out' = IF messagesLive THEN << message >> ELSE << >>
               /\ notes' = << >>
               /\ run' = runKept
               /\ UNCHANGED << pending, messagesLive, intervals, currentPlaybackStatus >>
          ELSE /\ pending' = unsubscribed(pending)
               /\ stopPlaying(<< message >>)
     /\ logged' = FALSE
     /\ UNCHANGED << midiSong, activeTrackIDProxy, activeTrackIDs, proxyFaulted,
                     playStartingTime, ingest >>

\* The run record after activeTrackIDs$ emitted `ids`: a run is steady while
\* the array is the one it started with.
runAfter(ids) ==
  IF ids = activeTrackIDs
    THEN runKept
    ELSE [ runKept EXCEPT !.steady = FALSE, !.notes = << >> ]

\* A CHANGE_TRACK_ACTIVE_STATUS message.  The subscription of line 261 feeds
\* activeTrackIDProxy first; the subscriptions of the sinks were made later,
\* so their withLatestFrom(activeTrackIDProxy) already holds the new array
\* when the same message reaches their map.
ChangeTrackActiveStatus(request) ==
  /\ midiSong # NoSong
  /\ ~proxyFaulted
  /\ request.active => Len(activeTrackIDProxy) < MaxActive
  /\ activeTrackIDProxy' = toggleTrack(request, activeTrackIDProxy)
  /\ activeTrackIDs' = toggleTrack(request, activeTrackIDProxy')
  /\ out' = IF messagesLive
              THEN << Message("ACTIVE_TRACKS_CHANGED", activeTrackIDs') >>
              ELSE << >>
  /\ run' = runAfter(activeTrackIDs')
  /\ notes' = << >>
  /\ logged' = FALSE
  /\ UNCHANGED << midiSong, pending, instrumentAvailability, proxyFaulted, messagesLive,
                  intervals, playStartingTime, currentPlaybackStatus, ingest >>

\* A CHANGE_ACTIVE_TRACKS message.  A map that throws errors activeTrackIDProxy,
\* and with it every withLatestFrom(activeTrackIDProxy): both sinks error.
ChangeActiveTracks(request) ==
  /\ midiSong # NoSong
  /\ ~proxyFaulted
  /\ (request.query = QueryFamily /\ request.active) =>
        Len(activeTrackIDProxy) < MaxActive
  /\ IF queryThrows(request, activeTrackIDProxy, midiSong)
       THEN /\ proxyFaulted' = TRUE
            /\ messagesLive' = FALSE
            /\ intervals' = << >>
            /\ run' = NoRun
            /\ out' = << >>
            /\ UNCHANGED << activeTrackIDProxy, activeTrackIDs >>
       ELSE /\ activeTrackIDProxy' = queryTracks(request, activeTrackIDProxy, midiSong)
            /\ activeTrackIDs' = queryTracks(request, activeTrackIDProxy', midiSong)
            /\ out' = IF messagesLive
                        THEN << Message("ACTIVE_TRACKS_CHANGED", activeTrackIDs') >>
                        ELSE << >>
            /\ run' = runAfter(activeTrackIDs')
            /\ UNCHANGED << proxyFaulted, messagesLive, intervals >>
  /\ notes' = << >>
  /\ logged' = FALSE
  /\ UNCHANGED << midiSong, pending, instrumentAvailability, playStartingTime,
                  currentPlaybackStatus, ingest >>

\* An UPDATE_STATUSES message: each withLatestFrom that holds a message emits it.
UpdateStatuses ==
  /\ out' = IF messagesLive
              THEN (IF instrumentAvailability.known
                      THEN << Message("INSTRUMENT_AVAILABILITY_CHANGED",
                                      instrumentAvailability.isAvailable) >>
                      ELSE << >>)
                   \o << Message("PLAYBACK_STATUS_CHANGED", currentPlaybackStatus) >>
                   \o (IF midiSong # NoSong
                         THEN << Message("SONG_CHANGED", midiSong),
                                 Message("ACTIVE_TRACKS_CHANGED", activeTrackIDs) >>
                         ELSE << >>)
              ELSE << >>
  /\ notes' = << >>
  /\ run' = runKept
  /\ logged' = FALSE
  /\ UNCHANGED << midiSong, pending, instrumentAvailability, activeTrackIDProxy,
                  activeTrackIDs, proxyFaulted, messagesLive, intervals,
                  playStartingTime, currentPlaybackStatus, ingest >>

\* The timer that is due next fires: an interval of songStopped$ ...
TickStatus ==
  /\ intervals # << >>
  /\ Head(intervals).sink = "messages"
  /\ LET i == Head(intervals)
         outcome == tickOutcome(midiSong, i.count)
         next == [ i EXCEPT !.count = Min(@ + 1, CountCap),
                            !.hasValue = @ \/ outcome = "pass" ]
     IN /\ intervals' =
             IF outcome # "complete" THEN Append(Tail(intervals), next)
             ELSE IF i.hasValue THEN Tail(intervals)
             ELSE SelectSeq(intervals, LAMBDA j : j.sink # "messages")
        /\ messagesLive' = (outcome = "complete" => i.hasValue)
        /\ out' = IF outcome = "complete" /\ i.hasValue
                    THEN stoppedMessages(1)
                    ELSE << >>
        /\ currentPlaybackStatus' = IF outcome = "complete" /\ i.hasValue
                                      THEN "STOPPED"
                                      ELSE currentPlaybackStatus
  /\ notes' = << >>
  /\ run' = runKept
  /\ logged' = FALSE
  /\ UNCHANGED << midiSong, pending, instrumentAvailability, activeTrackIDProxy,
                  activeTrackIDs, proxyFaulted, playStartingTime, ingest >>

\* ... or the interval of note$: a tick that passes looks up its bucket and
\* emits the notes of the active tracks.
TickNotes ==
  /\ intervals # << >>
  /\ Head(intervals).sink = "instrument"
  /\ LET i == Head(intervals)
         outcome == tickOutcome(midiSong, i.count)
         time == i.count * Interval
     IN /\ intervals' =
             IF outcome = "complete"
               THEN Tail(intervals)
               ELSE Append(Tail(intervals), [ i EXCEPT !.count = Min(@ + 1, CountCap),
                                                       !.hasValue = @ \/ outcome = "pass" ])
        /\ notes' = IF outcome = "pass"
                      THEN stamped(noteBatch(midiSong, time, activeTrackIDs),
                                   playStartingTime)
                      ELSE << >>
        /\ run' = IF outcome = "pass"
                    THEN [ run EXCEPT !.ticks = Append(@, time),
                                      !.notes = IF run.steady THEN @ \o notes' ELSE << >> ]
                  ELSE IF outcome = "complete"
                    THEN [ run EXCEPT !.state = "done" ]
                  ELSE run
  /\ out' = << >>
  /\ logged' = FALSE
  /\ UNCHANGED << midiSong, pending, instrumentAvailability, activeTrackIDProxy,
                  activeTrackIDs, proxyFaulted, messagesLive, playStartingTime,
                  currentPlaybackStatus, ingest >>

TrackRequests == [ id : RequestIDs, active : BOOLEAN ]

QueryRequests ==
  [ query : { QueryFamily }, id : RequestFamilies, active : BOOLEAN ]
    \cup [ query : { QueryAll } \cup RequestQueries, id : { "" }, active : BOOLEAN ]

Next ==
  \/ UpdateStatuses
  \/ \E song \in SongNames : PlaySong(song)
  \/ \E i \in 1 .. MaxPending : SongLoaded(i)
  \/ \E i \in 1 .. MaxPending : SongFailed(i)
  \/ \E i \in 1 .. MaxPending : SettledUnsubscribed(i)
  \/ PlayRequest
  \/ StopRequest
  \/ \E isAvailable \in BOOLEAN : InstrumentAvailability(isAvailable)
  \/ \E request \in TrackRequests : ChangeTrackActiveStatus(request)
  \/ \E request \in QueryRequests : ChangeActiveTracks(request)
  \/ TickStatus
  \/ TickNotes

Spec == Init /\ [][Next]_vars

\* The playback clock alone: the inputs that reach playCurrentTime$$ and the
\* timers.  The requests left out write neither intervals nor the ticks of run.
NextClock ==
  \/ \E song \in SongNames : PlaySong(song)
  \/ \E i \in 1 .. MaxPending : SongLoaded(i)
  \/ \E i \in 1 .. MaxPending : SongFailed(i)
  \/ \E i \in 1 .. MaxPending : SettledUnsubscribed(i)
  \/ PlayRequest
  \/ StopRequest
  \/ \E isAvailable \in BOOLEAN : InstrumentAvailability(isAvailable)
  \/ TickStatus
  \/ TickNotes

SpecClock == Init /\ [][NextClock]_vars

\* Playback that nothing interrupts: songs and PLAYING requests arrive, no
\* stop request and no reachability signal does, and a timer that is due
\* fires (the event loop runs every due setInterval callback).
NextUninterrupted ==
  \/ \E song \in SongNames : PlaySong(song)
  \/ \E i \in 1 .. MaxPending : SongLoaded(i)
  \/ \E i \in 1 .. MaxPending : SongFailed(i)
  \/ PlayRequest
  \/ TickStatus
  \/ TickNotes

SpecUninterrupted ==
  Init /\ [][NextUninterrupted]_vars /\ WF_vars(TickStatus \/ TickNotes)

\* The active tracks alone: songs arrive, the track requests are folded and
\* the statuses are resent.  No timer fires; a stop request ends the intervals.
NextTracks ==
  \/ UpdateStatuses
  \/ \E song \in SongNames : PlaySong(song)
  \/ \E i \in 1 .. MaxPending : SongLoaded(i)
  \/ StopRequest
  \/ \E isAvailable \in BOOLEAN : InstrumentAvailability(isAvailable)
  \/ \E request \in TrackRequests : ChangeTrackActiveStatus(request)
  \/ \E request \in QueryRequests : ChangeActiveTracks(request)

SpecTracks == Init /\ [][NextTracks]_vars

\* Activation by name alone: tracks are switched off one by one and switched
\* on by a query on their names only.
NameActivations == [ query : RequestQueries, id : { "" }, active : { TRUE } ]

NextNames ==
  \/ \E song \in SongNames : PlaySong(song)
  \/ \E i \in 1 .. MaxPending : SongLoaded(i)
  \/ StopRequest
  \/ \E id \in RequestIDs : ChangeTrackActiveStatus([ id |-> id, active |-> FALSE ])
  \/ \E request \in NameActivations : ChangeActiveTracks(request)

SpecNames == Init /\ [][NextNames]_vars

\* Playback with the tracks switched while it runs or before it is started
\* again: songs, PLAYING requests, single-track requests and the timers.
NextPlayback ==
  \/ \E song \in SongNames : PlaySong(song)
  \/ \E i \in 1 .. MaxPending : SongLoaded(i)
  \/ PlayRequest
  \/ \E request \in TrackRequests : ChangeTrackActiveStatus(request)
  \/ TickStatus
  \/ TickNotes

SpecPlayback == Init /\ [][NextPlayback]_vars

\* The map of notesByTrackIDByTime$ on its own: one decoded file goes in, its
\* dictionary comes out.
InitIngest ==
  /\ midiSong = NoSong
  /\ pending = << >>
  /\ instrumentAvailability = NoAvailability
  /\ activeTrackIDProxy = << >>
  /\ activeTrackIDs = << >>
  /\ proxyFaulted = FALSE
  /\ messagesLive = TRUE
  /\ intervals = << >>
  /\ playStartingTime = 0
  /\ currentPlaybackStatus = "STOPPED"
  /\ out = << Message("PLAYBACK_STATUS_CHANGED", "STOPPED") >>
  /\ notes = << >>
  /\ run = NoRun
  /\ logged = FALSE
  /\ ingest \in { [ NoIngest EXCEPT !.tracks = tracks ] : tracks \in DecodedTracks }

Ingest ==
  /\ ingest.tracks # << >>
  /\ ~ingest.mapped
  /\ ingest' = [ ingest EXCEPT !.mapped = TRUE,
                               !.notesByTrackIDByTime = bucketNotes(ingest.tracks) ]
  /\ UNCHANGED << midiSong, pending, instrumentAvailability, activeTrackIDProxy,
                  activeTrackIDs, proxyFaulted, messagesLive, intervals, playStartingTime,
                  currentPlaybackStatus, out, notes, run, logged >>

SpecIngest == InitIngest /\ [][Ingest]_vars

\* ----------------------------------------------------------------- claims

CurrentTrackIDs == IF midiSong = NoSong THEN { } ELSE TrackIDSet(midiSong)

Occurrences(seq, x) == Cardinality({ i \in 1 .. Len(seq) : seq[i] = x })

IsStopped(m) == m.type = "PLAYBACK_STATUS_CHANGED" /\ m.payload = "STOPPED"

\* C1: after any sequence of requests every id of the ActiveTrackSet (the
\* array the fold holds and the array the sinks see) is the id of a track of
\* the current song.
ActiveTracksAreTracks ==
  /\ \A i \in 1 .. Len(activeTrackIDProxy) : activeTrackIDProxy[i] \in CurrentTrackIDs
  /\ \A i \in 1 .. Len(activeTrackIDs) : activeTrackIDs[i] \in CurrentTrackIDs

\* C2: in every reachable state the ActiveTrackSet holds no track id more
\* than once.
NoDuplicateActiveTracks ==
  /\ \A id \in RequestIDs : Occurrences(activeTrackIDProxy, id) <= 1
  /\ \A id \in RequestIDs : Occurrences(activeTrackIDs, id) <= 1

\* C3: while the interval note$ is switched to still has a tick to deliver,
\* the published playback status is PLAYING: an interval superseded by a
\* re-entry into PLAYING changes the status no more.
PlayingWhileTicking ==
  ( /\ messagesLive
    /\ \E k \in 1 .. Len(noteIntervals) :
         tickOutcome(midiSong, noteIntervals[k].count) = "pass" )
  => currentPlaybackStatus = "PLAYING"

\* C4: a device-unreachable signal that arrives while the status is PLAYING
\* leaves no interval ticking and publishes STOPPED exactly once.
OfflineStopsExactlyOnce ==
  [][ ( /\ InstrumentAvailability(FALSE)
        /\ currentPlaybackStatus = "PLAYING"
        /\ midiSong # NoSong
        /\ messagesLive )
      => ( /\ intervals' = << >>
           /\ Len(SelectSeq(out', IsStopped)) = 1 ) ]_vars

\* C5: a STOPPED request that arrives while the status is PLAYING, before or
\* after the first tick, leaves no interval ticking and makes the published
\* status STOPPED.
StopRequestStops ==
  [][ ( /\ StopRequest
        /\ currentPlaybackStatus = "PLAYING"
        /\ midiSong # NoSong
        /\ messagesLive )
      => ( /\ intervals' = << >>
           /\ currentPlaybackStatus' = "STOPPED" ) ]_vars

\* C6: the ticks delivered to note$ in one run are 0, 100, 200, ... in
\* increasing order, each once and each below the duration of the current
\* song; a run that reached the duration delivered every such tick.
TickCoverage ==
  /\ \A k \in 1 .. Len(run.ticks) : run.ticks[k] = (k - 1) * Interval
  /\ run.ticks # << >> =>
       /\ midiSong # NoSong
       /\ \A k \in 1 .. Len(run.ticks) : run.ticks[k] < Songs[midiSong].duration
  /\ run.state = "done" =>
       /\ midiSong # NoSong
       /\ \A t \in 0 .. MaxDuration :
            (t % Interval = 0 /\ t < Songs[midiSong].duration)
              => Occurrences(run.ticks, t) = 1

\* C6 happens: a run of song a (250 ms) reached the duration with the ticks
\* 0, 100 and 200.
TickCoverageWitness ==
  /\ run.state = "done"
  /\ midiSong = "a"
  /\ run.ticks = << 0, 100, 200 >>

\* C7: when the status is PLAYING with a current song and nothing interrupts
\* the playback, the status eventually becomes STOPPED.
PlayingEventuallyStops ==
  (currentPlaybackStatus = "PLAYING" /\ midiSong # NoSong)
    ~> (currentPlaybackStatus = "STOPPED")

\* C8: no sequence of requests and signals makes an outbound stream error:
\* the messages sink and the instrument sink stay live.
StreamsStayLive == messagesLive /\ ~proxyFaulted

\* C9: an UPDATE_STATUSES request emits one notification of each of the four
\* kinds, carrying the current value of its property, and changes no value
\* (stated for the states where each property has a value).
IsNotification(m, type, payload) == m.type = type /\ m.payload = payload

ResendsAllFour ==
  [][ ( /\ UpdateStatuses
        /\ instrumentAvailability.known
        /\ midiSong # NoSong )
      => ( /\ Len(out') = 4
           /\ \E k \in 1 .. Len(out') :
                IsNotification(out'[k], "INSTRUMENT_AVAILABILITY_CHANGED",
                               instrumentAvailability.isAvailable)
           /\ \E k \in 1 .. Len(out') :
                IsNotification(out'[k], "PLAYBACK_STATUS_CHANGED", currentPlaybackStatus)
           /\ \E k \in 1 .. Len(out') :
                IsNotification(out'[k], "SONG_CHANGED", midiSong)
           /\ \E k \in 1 .. Len(out') :
                IsNotification(out'[k], "ACTIVE_TRACKS_CHANGED", activeTrackIDs)
           /\ UNCHANGED << instrumentAvailability, currentPlaybackStatus, midiSong,
                           activeTrackIDs, activeTrackIDProxy >> ) ]_vars

\* C10: in a run that reached the duration with the ActiveTrackSet unchanged,
\* every note of an active track with an onset before the duration was
\* dispatched exactly once, and no note of an inactive track was.
SongNotes(song) ==
  { [ note |-> Songs[song].tracks[i].notes[j].midi,
      time |-> timeOf(Songs[song].tracks[i].notes[j]),
      track |-> Songs[song].tracks[i].id ] :
      <<i, j>> \in { <<i, j>> \in (1 .. Len(Songs[song].tracks)) \X (1 .. 4) :
                       j <= Len(Songs[song].tracks[i].notes) } }

ActiveNotesOnce ==
  (run.state = "done" /\ run.steady /\ midiSong # NoSong)
  => \A n \in SongNotes(midiSong) :
       LET sent == [ n EXCEPT !.time = plus(run.startedAt, @) ]
       IN IF Contains(activeTrackIDs, n.track)
            THEN floor(n.time) < Songs[midiSong].duration => Occurrences(run.notes, sent) = 1
            ELSE Occurrences(run.notes, sent) = 0

\* The ids of an array, and two arrays that hold every id equally often.
Elements(ids) == { ids[k] : k \in 1 .. Len(ids) }

SameBag(ids, other) ==
  \A id \in Elements(ids) \cup Elements(other) :
     Occurrences(ids, id) = Occurrences(other, id)

\* C11: a tick that passes dispatches, for every track id of the
\* ActiveTrackSet, the notes of that track in the tick's bucket of the current
\* song, in source order, each once and stamped with the start time of its
\* tick sequence plus the note's time, and nothing else; without a bucket, or
\* without an active track in it, nothing is dispatched.
TickDispatchesBucket ==
  [][ ( /\ TickNotes
        /\ tickOutcome(midiSong, Head(intervals).count) = "pass" )
      => LET time == Head(intervals).count * Interval
             dictionary == notesByTrackIDByTime(midiSong)
             Expected(id) ==
               IF /\ id \in Elements(activeTrackIDs)
                  /\ time \in DOMAIN dictionary
                  /\ id \in DOMAIN dictionary[time]
                 THEN stamped(dictionary[time][id], run.startedAt)
                 ELSE << >>
         IN /\ \A id \in Elements(activeTrackIDs) \cup TrackIDSet(midiSong) :
                 SelectSeq(notes', LAMBDA n : n.track = id) = Expected(id)
            /\ \A k \in 1 .. Len(notes') : notes'[k].track \in Elements(activeTrackIDs) ]_vars

\* C12: when a decoded song becomes current, the ActiveTrackSet becomes the
\* track ids of that song, whatever requests were applied before, and note$
\* is on a new interval that starts at tick 0.
SongResetsActiveTracks ==
  [][ \A i \in 1 .. MaxPending :
        SongLoaded(i)
        => ( /\ activeTrackIDProxy' = allTrackIDs(midiSong')
             /\ activeTrackIDs' = allTrackIDs(midiSong')
             /\ Len(noteIntervals') = 1
             /\ noteIntervals'[1].count = 0
             /\ run'.ticks = << >> ) ]_vars

\* C13: a fetch that is rejected leaves the current song, the ActiveTrackSet,
\* the playback status and the intervals as they were, emits no notification
\* and no note, and takes only its own request out of the requests in flight.
FailedIngestionChangesNothing ==
  [][ \A i \in 1 .. MaxPending :
        SongFailed(i)
        => ( /\ UNCHANGED << midiSong, activeTrackIDProxy, activeTrackIDs,
                             currentPlaybackStatus, intervals, playStartingTime,
                             messagesLive, proxyFaulted >>
             /\ out' = << >>
             /\ notes' = << >>
             /\ pending' = Remove(pending, i) ) ]_vars

\* C13 happens: an error was logged while a song was playing, its interval
\* past the first tick, and another request was still in flight.
FailedIngestionWitness ==
  /\ logged
  /\ midiSong # NoSong
  /\ currentPlaybackStatus = "PLAYING"
  /\ \E k \in 1 .. Len(intervals) : intervals[k].hasValue
  /\ \E k \in 1 .. Len(pending) : pending[k].subscribed

\* C14: a query on the track names with active = true yields the tracks whose
\* lower-cased name contains one of the comma-separated terms together with
\* every id that was active before, each id once.
NameActivationKeepsActive ==
  [][ \A request \in NameActivations :
        ChangeActiveTracks(request)
        => LET terms == split(toLowerCase(request.query))
               matching == { id \in TrackIDSet(midiSong) :
                               \E k \in 1 .. Len(terms) :
                                  includes(toLowerCase(TrackAt(midiSong, id).name), terms[k]) }
               before == Elements(activeTrackIDProxy)
           IN /\ Elements(activeTrackIDProxy') = matching \cup before
              /\ Elements(activeTrackIDs') = matching \cup before
              /\ \A id \in matching \cup before :
                    /\ Occurrences(activeTrackIDProxy', id) = 1
                    /\ Occurrences(activeTrackIDs', id) = 1 ]_vars

\* C14 happens: on song a the query "R" (only the track "dr", id 1, matches)
\* has put id 1 in front of id 0, which was active and is kept.
NameActivationWitness ==
  /\ midiSong = "a"
  /\ activeTrackIDProxy = << 1, 0 >>
  /\ out = << Message("ACTIVE_TRACKS_CHANGED", << 1, 0 >>) >>

\* C15: from every reachable ActiveTrackSet, activating a family twice in a
\* row gives the same list (every id as often) as activating it once.
FamilyActivationIdempotent ==
  (midiSong # NoSong /\ ~proxyFaulted)
  => \A family \in RequestFamilies :
       LET request == [ query |-> QueryFamily, id |-> family, active |-> TRUE ]
           once == queryTracks(request, activeTrackIDProxy, midiSong)
           twice == queryTracks(request, once, midiSong)
       IN SameBag(once, twice)

\* C16: after {all, active: false} has emptied the ActiveTrackSet, activating
\* a family yields the ids of the tracks of that family ('other': of the
\* tracks without a family), each once, and nothing else.
FamilyAfterNoneIsFamily ==
  [][ \A family \in RequestFamilies :
        ( /\ ChangeActiveTracks([ query |-> QueryFamily, id |-> family, active |-> TRUE ])
          /\ activeTrackIDProxy = << >>
          /\ activeTrackIDs = << >> )
        => LET ofFamily == trackIDsOf(SelectSeq(Songs[midiSong].tracks,
                             LAMBDA track : track.instrumentFamily = familyOf(family)))
           IN /\ SameBag(activeTrackIDProxy', ofFamily)
              /\ SameBag(activeTrackIDs', ofFamily) ]_vars

\* C17: once a decoded file is mapped, every note of every track lies in
\* exactly one bucket, under its own track id and in source order, and the
\* key of that bucket is floor(timeMs / 100) * 100 of the note's time in ms,
\* a non-negative multiple of 100.
IngestQuantizes ==
  ingest.mapped
  => LET dictionary == ingest.notesByTrackIDByTime
         tracks == ingest.tracks
         Key(n) == (floor(timeOf(n)) \div BucketSize) * BucketSize
         Keys == DOMAIN dictionary
                   \cup UNION { { Key(tracks[i].notes[j]) : j \in 1 .. Len(tracks[i].notes) } :
                                  i \in 1 .. Len(tracks) }
         Placed(t, trackID) ==
           IF t \in DOMAIN dictionary /\ trackID \in DOMAIN dictionary[t]
             THEN dictionary[t][trackID]
             ELSE << >>
         Due(t, trackID) ==
           LET due == SelectSeq(tracks[trackID + 1].notes, LAMBDA n : Key(n) = t)
           IN [ k \in 1 .. Len(due) |->
                  [ note |-> due[k].midi, time |-> timeOf(due[k]), track |-> trackID ] ]
     IN /\ \A t \in DOMAIN dictionary : t >= 0 /\ t % BucketSize = 0
        /\ \A t \in Keys : \A i \in 1 .. Len(tracks) : Placed(t, i - 1) = Due(t, i - 1)

\* C18: songs become current, and SONG_CHANGED is emitted, in the order of
\* their PLAY_SONG requests: a request that delivers its song after a request
\* made later has delivered its own does not put another song in the place
\* of the current one.
SongsInRequestOrder ==
  [][ \A i \in 1 .. MaxPending :
        (SongLoaded(i) /\ pending[i].overtaken) => pending[i].song = midiSong ]_vars

\* C19: the ActiveTrackSet is one value: the array the notifications carry
\* and the NoteDispatcher reads holds every id as often as the array the next
\* request is folded onto.
ActiveTrackSetIsOneValue == SameBag(activeTrackIDs, activeTrackIDProxy)

HasSongChanged(messages) ==
  \E k \in 1 .. Len(messages) : messages[k].type = "SONG_CHANGED"

\* C20: an unreachable device abandons every ingestion in flight: the signal
\* itself changes no song, a request abandoned by it changes nothing when its
\* fetch settles (no song, no SONG_CHANGED, no playback), a song becomes
\* current only from a request that was not abandoned, and a PLAY_SONG made
\* afterwards is in flight as any other.
OfflineAbandonsIngestion ==
  [][ /\ InstrumentAvailability(FALSE)
         => /\ Len(pending') = Len(pending)
            /\ \A k \in 1 .. Len(pending) :
                  /\ ~pending'[k].subscribed
                  /\ pending'[k].song = pending[k].song
            /\ midiSong' = midiSong
            /\ ~HasSongChanged(out')
      /\ \A i \in 1 .. Len(pending) :
            (~pending[i].subscribed /\ pending' = Remove(pending, i))
            => /\ UNCHANGED << midiSong, activeTrackIDProxy, activeTrackIDs, intervals,
                               playStartingTime, currentPlaybackStatus >>
               /\ out' = << >>
               /\ notes' = << >>
      /\ (midiSong' # midiSong \/ HasSongChanged(out'))
         => \E i \in 1 .. Len(pending) :
               /\ pending[i].subscribed
               /\ pending[i].song = midiSong'
               /\ Len(pending') = Len(pending) - 1
      /\ \A song \in SongNames :
            PlaySong(song)
            => /\ pending'[Len(pending')].subscribed
               /\ pending'[Len(pending')].song = song ]_vars

\* C20 happens: the request for song a was abandoned by the signal and is
\* still unsettled, and the song b requested after the signal has just
\* become current.
OfflineAbandonsWitness ==
  /\ pending = << [ Request("a") EXCEPT !.subscribed = FALSE, !.overtaken = TRUE ] >>
  /\ midiSong = "b"
  /\ HasSongChanged(out)
  /\ instrumentAvailability = [ known |-> TRUE, isAvailable |-> FALSE ]

====
